---------------------------- MODULE Spec2Model ----------------------------
(***************************************************************************)
(* A model of bot.py, the Bilibili -> YouTube relay: the run controller    *)
(* (main), the ledger of processed ids, candidate discovery, the download  *)
(* retry loop and the title translation chain.                             *)
(*                                                                         *)
(* Texts (titles, translations) are sequences of one-character strings, so *)
(* that strip() is computed and not assumed.  None is the Python None.     *)
(***************************************************************************)
EXTENDS Integers, Sequences, FiniteSets, TLC

\* ------------------------------------------------------------------ bounds
MaxEntries == 3
MaxQuota == 2
MaxSkips == 2
MaxRetries == 2
MaxChecks == 1
MaxLoaded == 0
MaxCalls == 2

\* ------------------------------------------------------- program constants
SizeThreshold == 100

None == "None"
Ids == {"A", "B"}
\* the order sorted() gives the ids
IdOrder == <<"A", "B">>

RECURSIVE SeqsUpTo(_, _)
SeqsUpTo(S, n) ==
    IF n = 0 THEN {<<>>}
    ELSE LET shorter == SeqsUpTo(S, n - 1)
         IN  shorter \cup {Append(s, x) : s \in {t \in shorter : Len(t) = n - 1}, x \in S}

Range(s) == {s[i] : i \in 1..Len(s)}

\* -------------------------------------------------------------------- files
\* a file on disk: absent, unparsable, or holding the JSON value that was written
MissingFile == [kind |-> "missing", content |-> <<>>]
CorruptFile == [kind |-> "corrupt", content |-> <<>>]
JsonFile(v) == [kind |-> "json", content |-> v]

\* -------------------------------------------------------- title translation
Blank == " "

\* str.strip()
RECURSIVE lstrip(_)
lstrip(t) == IF t # <<>> /\ Head(t) = Blank THEN lstrip(Tail(t)) ELSE t

RECURSIVE rstrip(_)
rstrip(t) ==
    IF t # <<>> /\ t[Len(t)] = Blank THEN rstrip(SubSeq(t, 1, Len(t) - 1)) ELSE t

strip(t) == rstrip(lstrip(t))

\* what a translation provider does when called: it raises, or returns a value
Raises == [kind |-> "raise", text |-> <<>>]
NoneValue == [kind |-> "none", text |-> <<>>]
Text(t) == [kind |-> "text", text |-> t]

\* try_googletrans ... try_unidecode: any exception becomes None
TryStrategy(r) == IF r.kind = "raise" THEN NoneValue ELSE r

\* a test that lets a blank text win
Wins_NoStrip(r) == r.kind = "text" /\ r.text # <<>>

\* line 217: "translated and translated.strip()"; a value that is no text (None, or
\* an exception caught at line 221) does not win
Wins(r) == r.kind = "text" /\ r.text # <<>> /\ strip(r.text) # <<>>

\* the attempts list, in its order
Strategies == <<"googletrans", "deep_google", "libre", "mymemory", "unidecode">>

\* lines 214-223: the position the loop breaks at, 0 when it runs to its end
RECURSIVE FirstWin(_, _)
FirstWin(outs, i) ==
    IF i > Len(Strategies) THEN 0
    ELSE IF Wins(TryStrategy(outs[i])) THEN i
    ELSE FirstWin(outs, i + 1)

\* the translation cache: for every id an entry or none
NoEntry == [has |-> FALSE, text |-> <<>>]
Entry(t) == [has |-> TRUE, text |-> t]

\* a lookup that never hits
CacheHit_Never(cache, v) == FALSE

\* line 204: "vid in translations_cache and translations_cache[vid]"
CacheHit(cache, v) == cache[v].has /\ cache[v].text # <<>>

\* translations_cache[vid] = value
CachePut(cache, v, t) == [cache EXCEPT ![v] = Entry(t)]

TextFile(t) == [kind |-> "text", content |-> t]

\* lines 227-235: the stripped text of the fallback file; a missing file, and a
\* read that raises (caught at line 234), give no fallback
FallbackTitle(file) == IF file.kind = "text" THEN strip(file.content) ELSE <<>>

\* translate_title_for_vid(vid, original_title, translations_cache), with what the
\* providers would return (outs) and the fallback file as further inputs.  The
\* result: the value returned, the cache afterwards, the number of providers
\* called, whether the fallback file was looked at, whether an exception escaped.
translate_title_for_vid(v, original_title, cache, outs, fallback) ==
    LET k == FirstWin(outs, 1)
        fb == FallbackTitle(fallback)
    IN  IF original_title = <<>>
        THEN [ret |-> <<v>>, cache |-> cache, calls |-> 0, fb_read |-> FALSE,
              raised |-> FALSE]
        ELSE IF CacheHit(cache, v)
        THEN [ret |-> cache[v].text, cache |-> cache, calls |-> 0, fb_read |-> FALSE,
              raised |-> FALSE]
        ELSE IF k > 0
        THEN [ret |-> strip(outs[k].text),
              cache |-> CachePut(cache, v, strip(outs[k].text)),
              calls |-> k, fb_read |-> FALSE, raised |-> FALSE]
        ELSE IF fb # <<>>
        THEN [ret |-> fb, cache |-> CachePut(cache, v, fb),
              calls |-> Len(Strategies), fb_read |-> TRUE, raised |-> FALSE]
        ELSE [ret |-> original_title, cache |-> CachePut(cache, v, original_title),
              calls |-> Len(Strategies), fb_read |-> TRUE, raised |-> FALSE]

\* load_translations: the object of the file, or an empty cache
EmptyCache == [v \in Ids |-> NoEntry]
load_translations(file) == IF file.kind = "json" THEN file.content ELSE EmptyCache

\* the inputs the translation is exercised on
StrategyOutputs(i) ==
    {Raises, Text(<<>>), Text(<<Blank>>), Text(<<Blank, Strategies[i], Blank>>)}
AllOutputs ==
    {<<a, b, c, d, e>> : a \in StrategyOutputs(1), b \in StrategyOutputs(2),
                         c \in StrategyOutputs(3), d \in StrategyOutputs(4),
                         e \in StrategyOutputs(5)}
Titles == {<<>>, <<Blank, "t">>}
FallbackFiles == {MissingFile, CorruptFile, TextFile(<<Blank>>), TextFile(<<"f", Blank>>)}
TranslationFiles ==
    {MissingFile, CorruptFile,
     JsonFile([EmptyCache EXCEPT !["A"] = Entry(<<"c">>)]),
     JsonFile([EmptyCache EXCEPT !["A"] = Entry(<<>>)])}

NoCall == [vid |-> "A", title |-> <<>>, outs |-> <<>>, fallback |-> MissingFile,
           before |-> EmptyCache, ret |-> <<>>, calls |-> 0, fb_read |-> FALSE,
           raised |-> FALSE]

\* --------------------------------------------------------------- the state
VARIABLES
    pc,                 \* position of main()
    rerun,              \* FALSE in the first execution of the script, TRUE in the next
    MAX_VIDEOS, SKIP_LIMIT, DOWNLOAD_RETRIES,   \* configuration read at import
    channel,            \* what the source channel holds, in its order
    ledger_file,        \* downloaded_ids.json on disk
    downloaded_ids,     \* the in-memory set of processed ids
    entries,            \* what the flat listing returned
    candidates,         \* ids of the candidate list, in order
    max_checks, probe_idx, probes,   \* per-item fallback: limit, index, calls made
    successes, skips, idx,
    attempt, download_ok, downloaded_file,
    video_id,
    thumb_local,        \* None or "thumbnail.jpg"
    thumb_disk,         \* thumbnail.jpg on disk: None (no file), "current" (fetched
                        \* for the candidate being processed) or "stale"
    media_disk,         \* a media file with the candidate's name prefix is on disk
    thumb_set,          \* what youtube_set_thumbnail sent for the current candidate's
                        \* video: None (not called), "current" or "stale"
    cookies_txt,        \* cookies.txt is on disk
    credentials,        \* what get_youtube_service found: None (not asked yet in
                        \* this run), "ok" or "missing"
    \* history, for stating the claims
    loaded,             \* the set the ledger gave at run start
    popped,             \* the ids popped by the main loop in this run, in order
    fetch_log,          \* what each fetch attempt of the current candidate found
    n_added,            \* calls of downloaded_ids.add in this run
    n_uploaded,         \* candidates of this run downloaded and uploaded with an id
    n_failed,           \* candidates of this run that ended exhausted or not uploaded
    confirmed,          \* ids whose upload returned a video id in this run
    upload_failed,      \* ids whose upload raised or returned no id in this run
    did,                \* the kinds of work this run has done: "load", "list",
                        \* "probe", "fetch", "upload", "save", "report"
    \* the title translation, exercised on its own (SpecTranslate)
    translations_cache, \* id -> cached title, or no entry
    tcall,              \* the last call of translate_title_for_vid: inputs and result
    tcalls,             \* calls made so far
    \* the local name of line 514, exercised on its own (SpecName)
    names,              \* per candidate named so far: id, display title, safe_name
    \* youtube_upload_video, exercised on its own (SpecUpload)
    u_pc,               \* "unused", "idle", "loop", "returned" or "raised"
    response, retry,    \* its locals
    u_ret,              \* what it returned: None or the video id
    chunks,             \* next_chunk calls that reported progress only
    n_errors,           \* next_chunk calls that raised
    last_chunk          \* what the last next_chunk call did

vars == <<pc, rerun, MAX_VIDEOS, SKIP_LIMIT, DOWNLOAD_RETRIES, channel, ledger_file,
          downloaded_ids, entries, candidates, max_checks, probe_idx, probes,
          successes, skips, idx, attempt, download_ok, downloaded_file, video_id,
          thumb_local, thumb_disk, loaded, popped, fetch_log, n_added, n_uploaded,
          n_failed, confirmed, upload_failed, translations_cache, tcall, tcalls,
          media_disk, thumb_set, cookies_txt, credentials, did, names,
          u_pc, response, retry, u_ret, chunks, n_errors, last_chunk>>

config == <<MAX_VIDEOS, SKIP_LIMIT, DOWNLOAD_RETRIES, channel>>
translation == <<translations_cache, tcall, tcalls>>
discovery == <<entries, candidates, max_checks, probe_idx, probes>>
counters == <<successes, skips, idx>>
download == <<attempt, download_ok, downloaded_file, fetch_log, media_disk>>
lifecycle == <<cookies_txt, credentials, did>>
upload == <<u_pc, response, retry, u_ret, chunks, n_errors, last_chunk>>
history == <<loaded, popped, n_added, n_uploaded, n_failed, confirmed, upload_failed>>

\* the candidate the current iteration popped (cand = candidates[idx]; idx += 1)
vid == candidates[idx]

\* ------------------------------------------------------------ ledger store
\* a ledger write that holds only the ids this run added
save_json_obj_ids_Delta(ids_set) ==
    JsonFile(SelectSeq(IdOrder, LAMBDA x : x \in ids_set \ loaded))

\* save_json_obj(path, sorted(list(ids_set))): the whole sorted list is written
save_json_obj_ids(ids_set) == JsonFile(SelectSeq(IdOrder, LAMBDA x : x \in ids_set))

\* set(json.loads(...)): the set of the list's elements; a missing or an
\* unparsable file gives the empty set
load_json_set(file) ==
    IF file.kind = "json" THEN Range(file.content) ELSE {}

\* the chunk outcome recorded before any next_chunk call
NoChunk == [kind |-> "none", status |-> 0, response |-> None]

\* youtube_upload_video is not running
UploadUnused ==
    /\ u_pc = "unused"
    /\ response = None
    /\ retry = 0
    /\ u_ret = None
    /\ chunks = 0
    /\ n_errors = 0
    /\ last_chunk = NoChunk

\* The model takes the cookie blob as configured: without it main never
\* touches cookies.txt (lines 424 and 648).
BILIBILI_COOKIES_ENV == TRUE

InitLedgers ==
    {MissingFile, CorruptFile} \cup
    {JsonFile(SelectSeq(IdOrder, LAMBDA x : x \in S)) :
        S \in {T \in SUBSET Ids : Cardinality(T) <= MaxLoaded}}

Init ==
    /\ pc = "start"
    /\ rerun = FALSE
    /\ MAX_VIDEOS \in 0..MaxQuota
    /\ SKIP_LIMIT \in 0..MaxSkips
    /\ DOWNLOAD_RETRIES \in 0..MaxRetries
    /\ channel \in SeqsUpTo(Ids, MaxEntries)
    /\ ledger_file \in InitLedgers
    /\ downloaded_ids = {}
    /\ entries = <<>>
    /\ candidates = <<>>
    /\ max_checks = 0
    /\ probe_idx = 0
    /\ probes = 0
    /\ successes = 0
    /\ skips = 0
    /\ idx = 0
    /\ attempt = 0
    /\ download_ok = FALSE
    /\ downloaded_file = None
    /\ video_id = None
    /\ thumb_local = None
    /\ thumb_disk = None
    /\ loaded = {}
    /\ popped = <<>>
    /\ fetch_log = <<>>
    /\ n_added = 0
    /\ n_uploaded = 0
    /\ n_failed = 0
    /\ confirmed = {}
    /\ upload_failed = {}
    /\ translations_cache = EmptyCache
    /\ tcall = NoCall
    /\ tcalls = 0
    /\ media_disk = FALSE
    /\ thumb_set = None
    /\ names = <<>>
    /\ cookies_txt = FALSE
    /\ credentials = None
    /\ did = {}
    /\ UploadUnused

\* ------------------------------------------------------------------ startup
\* main, up to the credential check: get_youtube_service() raises SystemExit
\* when no token is available
\* a credential check whose failure is not fatal
AfterAuth_Ignore(token_ok) == "load"

\* lines 440-444: SystemExit unless the service could be built
AfterAuth(token_ok) == IF token_ok THEN "load" ELSE "aborted"

Start ==
    /\ pc = "start"
    /\ cookies_txt' = (BILIBILI_COOKIES_ENV \/ cookies_txt)
    /\ \E token_ok \in BOOLEAN :
          /\ credentials' = IF token_ok THEN "ok" ELSE "missing"
          /\ pc' = AfterAuth(token_ok)
    /\ UNCHANGED <<rerun, config, translation, names, upload, thumb_set, ledger_file, downloaded_ids, discovery, counters,
                   download, video_id, thumb_local, thumb_disk, history, did>>

LoadLedger ==
    /\ pc = "load"
    /\ downloaded_ids' = load_json_set(ledger_file)
    /\ loaded' = load_json_set(ledger_file)
    /\ did' = did \cup {"load"}
    /\ pc' = "flat"
    /\ UNCHANGED <<rerun, config, translation, names, upload, thumb_set, ledger_file, discovery, counters, download, video_id,
                   thumb_local, thumb_disk, popped, n_added, n_uploaded, n_failed,
                   confirmed, upload_failed, cookies_txt, credentials>>

\* ---------------------------------------------------------------- discovery
\* the loop over the flat entries: keep, in order, the ids not yet processed
FlatCandidates(es, done) == SelectSeq(es, LAMBDA v : v \notin done)

\* the flat listing returns the channel's entries, or nothing when blocked
FlatList ==
    /\ pc = "flat"
    /\ did' = did \cup {"list"}
    /\ \E blocked \in BOOLEAN :
          /\ entries' = IF blocked THEN <<>> ELSE channel
          /\ candidates' = FlatCandidates(entries', downloaded_ids)
          /\ IF candidates' = <<>>
             THEN /\ \E mc \in 0..MaxChecks : max_checks' = mc
                  /\ probe_idx' = 1
                  /\ pc' = "probe"
             ELSE /\ UNCHANGED <<max_checks, probe_idx>>
                  /\ pc' = "found"
    /\ UNCHANGED <<rerun, config, translation, names, upload, thumb_set, ledger_file, downloaded_ids, probes, counters,
                   download, video_id, thumb_local, thumb_disk, history, cookies_txt, credentials>>

\* what fetch_single_item_metadata can return for index i: the item at that
\* position, or None (no such item, or every retry failed)
ProbeResults(i) == {None} \cup (IF i <= Len(channel) THEN {channel[i]} ELSE {})

\* one turn of the per-item fallback loop
Probe ==
    /\ pc = "probe"
    /\ IF Len(candidates) < max_checks
       THEN \E data \in ProbeResults(probe_idx) :
              /\ probes' = probes + 1
              /\ did' = did \cup {"probe"}
              /\ probe_idx' = probe_idx + 1
              /\ IF data = None
                 THEN /\ UNCHANGED candidates
                      /\ pc' = IF probe_idx' > max_checks THEN "found" ELSE "probe"
                 ELSE IF data \in downloaded_ids
                 THEN UNCHANGED <<candidates, pc>>
                 ELSE /\ candidates' = Append(candidates, data)
                      /\ pc' = IF Len(candidates') >= max_checks THEN "found" ELSE "probe"
       ELSE /\ pc' = "found"
            /\ UNCHANGED <<candidates, probe_idx, probes, did>>
    /\ UNCHANGED <<rerun, config, translation, names, upload, thumb_set, ledger_file, downloaded_ids, entries, max_checks,
                   counters, download, video_id, thumb_local, thumb_disk, history,
                   cookies_txt, credentials>>

\* line 481: nothing to do, or the counters are set up for the main loop
Found ==
    /\ pc = "found"
    /\ IF candidates = <<>>
       THEN /\ pc' = "exit_empty"
            /\ UNCHANGED counters
       ELSE /\ successes' = 0
            /\ skips' = 0
            /\ idx' = 0
            /\ pc' = "loop"
    /\ UNCHANGED <<rerun, config, translation, names, upload, thumb_set, ledger_file, downloaded_ids, discovery, download,
                   video_id, thumb_local, thumb_disk, history, lifecycle>>

\* ---------------------------------------------------------------- main loop
\* a loop condition that forgets the quota
LoopGuard_NoQuota == idx < Len(candidates) /\ skips < SKIP_LIMIT

\* a loop condition that tolerates one skip too many
LoopGuard_SkipOffByOne ==
    successes < MAX_VIDEOS /\ idx < Len(candidates) /\ skips <= SKIP_LIMIT

\* the while condition of the main loop
LoopGuard == successes < MAX_VIDEOS /\ idx < Len(candidates) /\ skips < SKIP_LIMIT

\* lines 647-654: cookies.txt is removed when a cookie blob is configured
CookiesAfterCleanup(present) == IF BILIBILI_COOKIES_ENV THEN FALSE ELSE present

\* lines 645-654, reached when the loop ends or by break: the final counts are
\* reported and cookies.txt is removed
RunEnd(done_before) ==
    /\ did' = done_before \cup {"report"}
    /\ cookies_txt' = CookiesAfterCleanup(cookies_txt)
    /\ pc' = "done"

\* the loop condition fails
LoopExit ==
    /\ pc = "loop"
    /\ ~LoopGuard
    /\ RunEnd(did)
    /\ UNCHANGED <<rerun, config, translation, names, upload, thumb_set, ledger_file, downloaded_ids, discovery, counters,
                   download, video_id, thumb_local, thumb_disk, history, credentials>>

\* the thumbnail file after the iteration's fetch: a successful GET overwrites
\* thumbnail.jpg, otherwise a file left by an earlier candidate stays
ThumbAfterFetch(fetched, disk) ==
    IF fetched THEN "current" ELSE IF disk = None THEN None ELSE "stale"

\* the head of an iteration: pop, metadata, title, thumbnail; the download
\* loop's variables are reset
Pop ==
    /\ pc = "loop"
    /\ LoopGuard
    /\ idx' = idx + 1
    /\ popped' = Append(popped, candidates[idx + 1])
    /\ \E thumb_fetched \in BOOLEAN :
          /\ thumb_local' = IF thumb_fetched THEN "thumbnail.jpg" ELSE None
          /\ thumb_disk' = ThumbAfterFetch(thumb_fetched, thumb_disk)
    /\ attempt' = 0
    /\ download_ok' = FALSE
    /\ downloaded_file' = None
    /\ fetch_log' = <<>>
    /\ video_id' = None
    /\ pc' = "download"
    /\ UNCHANGED <<rerun, config, translation, names, upload, thumb_set, ledger_file, downloaded_ids, discovery, successes,
                   skips, loaded, n_added, n_uploaded, n_failed, confirmed,
                   upload_failed, media_disk, lifecycle>>

\* what find_downloaded_file_by_prefix and getsize see after one run of the
\* fetcher: no file, or a file of some size
NoFile == [found |-> FALSE, size |-> 0]
FileOfSize(n) == [found |-> TRUE, size |-> n]
FetchResults == {NoFile, FileOfSize(SizeThreshold), FileOfSize(SizeThreshold + 1)}

\* the validation of line 558
FileIsValid(f) == f.found /\ f.size > SizeThreshold

\* a retry loop that makes one attempt too many
DownloadLoopGuard_OffByOne == attempt <= DOWNLOAD_RETRIES /\ ~download_ok

\* the while condition of the download loop
DownloadLoopGuard == attempt < DOWNLOAD_RETRIES /\ ~download_ok

\* one attempt of the download loop; a failed one removes the partial files
DownloadAttempt ==
    /\ pc = "download"
    /\ DownloadLoopGuard
    /\ attempt' = attempt + 1
    /\ did' = did \cup {"fetch"}
    /\ \E f \in FetchResults :
          /\ fetch_log' = Append(fetch_log, f)
          /\ IF FileIsValid(f)
             THEN download_ok' = TRUE /\ downloaded_file' = "media" /\ media_disk' = TRUE
             ELSE download_ok' = FALSE /\ downloaded_file' = None /\ media_disk' = FALSE
    /\ UNCHANGED <<pc, rerun, config, translation, names, upload, thumb_set, ledger_file, downloaded_ids, discovery, counters,
                   video_id, thumb_local, thumb_disk, history, cookies_txt, credentials>>

\* line 552: subprocess.run is given no timeout, so with a fetcher that never
\* exits the call never returns and main stays inside the attempt
DownloadBlocks ==
    /\ pc = "download"
    /\ DownloadLoopGuard
    /\ attempt' = attempt + 1
    /\ did' = did \cup {"fetch"}
    /\ pc' = "blocked"
    /\ UNCHANGED <<rerun, config, translation, names, upload, thumb_set, ledger_file, downloaded_ids, discovery, counters,
                   download_ok, downloaded_file, fetch_log, media_disk, video_id,
                   thumb_local, thumb_disk, history, cookies_txt, credentials>>

\* The locals of an iteration are dead once it ends (lines 517 and 531-533 and 581
\* set them again before any read): the model gives them those values at once.
EndIteration ==
    /\ attempt' = 0
    /\ download_ok' = FALSE
    /\ downloaded_file' = None
    /\ fetch_log' = <<>>
    /\ video_id' = None
    /\ thumb_local' = None

\* os.remove(thumb_local) under "if thumb_local and os.path.exists(thumb_local)"
RemoveThumb(local, disk) == IF local # None THEN None ELSE disk

\* a skip that is not counted
CountSkip_Forgotten(n) == n

\* skips += 1 (lines 572, 599 and 638)
CountSkip(n) == n + 1

\* lines 571-579: the download is exhausted, the candidate is skipped
SkipDownload ==
    /\ pc = "download"
    /\ ~DownloadLoopGuard
    /\ ~download_ok
    /\ skips' = CountSkip(skips)
    /\ n_failed' = n_failed + 1
    /\ thumb_disk' = RemoveThumb(thumb_local, thumb_disk)
    /\ EndIteration
    /\ pc' = "loop"
    /\ UNCHANGED <<rerun, config, translation, names, upload, thumb_set, ledger_file, downloaded_ids, discovery, successes, idx,
                   loaded, popped, n_added, n_uploaded, confirmed, upload_failed, media_disk, lifecycle>>

\* what youtube_upload_video does: returns an id, returns without one, raises
UploadResults == {"id", "none", "raise"}

\* after a failed upload: break when the skip limit is reached
SkipLimitReached(n) == n >= SKIP_LIMIT

\* lines 581-604 and 631-641: the upload, and what follows a failed one
Upload ==
    /\ pc = "download"
    /\ download_ok
    /\ \E res \in UploadResults :
          \/ /\ res = "raise"
             /\ skips' = CountSkip(skips)
             /\ n_failed' = n_failed + 1
             /\ upload_failed' = upload_failed \cup {vid}
             /\ EndIteration
             /\ media_disk' = FALSE
             /\ IF SkipLimitReached(skips')
                THEN RunEnd(did \cup {"upload"})
                ELSE /\ did' = did \cup {"upload"}
                     /\ pc' = "loop"
                     /\ UNCHANGED cookies_txt
             /\ UNCHANGED confirmed
          \/ /\ res = "none"
             /\ skips' = CountSkip(skips)
             /\ n_failed' = n_failed + 1
             /\ upload_failed' = upload_failed \cup {vid}
             /\ EndIteration
             /\ media_disk' = FALSE
             /\ IF SkipLimitReached(skips')
                THEN RunEnd(did \cup {"upload"})
                ELSE /\ did' = did \cup {"upload"}
                     /\ pc' = "sleep"
                     /\ UNCHANGED cookies_txt
             /\ UNCHANGED confirmed
          \/ /\ res = "id"
             /\ video_id' = "yt"
             /\ confirmed' = confirmed \cup {vid}
             /\ did' = did \cup {"upload"}
             /\ pc' = "uploaded"
             /\ UNCHANGED <<download, thumb_local, skips, n_failed, upload_failed, cookies_txt>>
    /\ UNCHANGED <<rerun, config, translation, names, upload, thumb_set, ledger_file, downloaded_ids, discovery, successes, idx,
                   thumb_disk, loaded, popped, n_added, n_uploaded, credentials>>

\* an add that is forgotten, and one that overwrites the set
AddProcessed_Forget(ids, v) == ids
AddProcessed_Replace(ids, v) == {v}

\* downloaded_ids.add(vid)
AddProcessed(ids, v) == ids \cup {v}

\* a thumbnail test that looks at the disk only
ThumbToAttach_AnyFile(local, disk) == disk

\* lines 608-610: youtube_set_thumbnail is called with thumbnail.jpg under
\* "if thumb_local and os.path.exists(thumb_local)"; None: no call
ThumbToAttach(local, disk) == IF local # None /\ disk # None THEN disk ELSE None

\* lines 606-620: the thumbnail is set and removed, the id is marked processed
MarkProcessed ==
    /\ pc = "uploaded"
    /\ thumb_set' = ThumbToAttach(thumb_local, thumb_disk)
    /\ thumb_disk' = RemoveThumb(thumb_local, thumb_disk)
    /\ downloaded_ids' = AddProcessed(downloaded_ids, vid)
    /\ n_added' = n_added + 1
    /\ pc' = "added"
    /\ UNCHANGED <<rerun, config, translation, names, upload, ledger_file, discovery, counters, download, video_id,
                   thumb_local, loaded, popped, n_uploaded, n_failed, confirmed,
                   upload_failed, lifecycle>>

\* lines 621-630: the ledger is written, the media file removed, the success counted
Finalize ==
    /\ pc = "added"
    /\ ledger_file' = save_json_obj_ids(downloaded_ids)
    /\ successes' = successes + 1
    /\ n_uploaded' = n_uploaded + 1
    /\ EndIteration
    /\ media_disk' = FALSE
    /\ thumb_set' = None
    /\ did' = did \cup {"save"}
    /\ pc' = "sleep"
    /\ UNCHANGED <<rerun, config, translation, names, upload, downloaded_ids, discovery, skips, idx, thumb_disk,
                   loaded, popped, n_added, n_failed, confirmed, upload_failed,
                   cookies_txt, credentials>>

\* line 643
Sleep ==
    /\ pc = "sleep"
    /\ pc' = "loop"
    /\ UNCHANGED <<rerun, config, translation, names, upload, thumb_set, ledger_file, downloaded_ids, discovery, counters,
                   download, video_id, thumb_local, thumb_disk, history, lifecycle>>

\* the script is started again: a new process, the same disk
NextRun ==
    /\ pc \in {"done", "exit_empty", "aborted"}
    /\ ~rerun
    /\ rerun' = TRUE
    /\ pc' = "start"
    /\ downloaded_ids' = {}
    /\ entries' = <<>>
    /\ candidates' = <<>>
    /\ max_checks' = 0
    /\ probe_idx' = 0
    /\ probes' = 0
    /\ successes' = 0
    /\ skips' = 0
    /\ idx' = 0
    /\ EndIteration
    /\ thumb_disk' = IF thumb_disk = None THEN None ELSE "stale"
    /\ loaded' = {}
    /\ popped' = <<>>
    /\ n_added' = 0
    /\ n_uploaded' = 0
    /\ n_failed' = 0
    /\ confirmed' = {}
    /\ upload_failed' = {}
    /\ credentials' = None
    /\ did' = {}
    /\ UNCHANGED <<config, translation, names, upload, thumb_set, ledger_file, media_disk, cookies_txt>>

Next ==
    \/ Start
    \/ LoadLedger
    \/ FlatList
    \/ Probe
    \/ Found
    \/ LoopExit
    \/ Pop
    \/ DownloadAttempt
    \/ DownloadBlocks
    \/ SkipDownload
    \/ Upload
    \/ MarkProcessed
    \/ Finalize
    \/ Sleep
    \/ NextRun

Spec == Init /\ [][Next]_vars

\* ------------------------------------------- the translation on its own
main == <<rerun, config, ledger_file, downloaded_ids, discovery, counters, download,
          video_id, thumb_local, thumb_disk, thumb_set, history, lifecycle, upload,
          names>>

InitTranslate ==
    /\ pc = "idle"
    /\ rerun = FALSE
    /\ MAX_VIDEOS = 0
    /\ SKIP_LIMIT = 0
    /\ DOWNLOAD_RETRIES = 0
    /\ channel = <<>>
    /\ ledger_file = MissingFile
    /\ downloaded_ids = {}
    /\ entries = <<>>
    /\ candidates = <<>>
    /\ max_checks = 0
    /\ probe_idx = 0
    /\ probes = 0
    /\ successes = 0
    /\ skips = 0
    /\ idx = 0
    /\ attempt = 0
    /\ download_ok = FALSE
    /\ downloaded_file = None
    /\ video_id = None
    /\ thumb_local = None
    /\ thumb_disk = None
    /\ loaded = {}
    /\ popped = <<>>
    /\ fetch_log = <<>>
    /\ n_added = 0
    /\ n_uploaded = 0
    /\ n_failed = 0
    /\ confirmed = {}
    /\ upload_failed = {}
    /\ \E file \in TranslationFiles : translations_cache = load_translations(file)
    /\ tcall = NoCall
    /\ tcalls = 0
    /\ media_disk = FALSE
    /\ thumb_set = None
    /\ names = <<>>
    /\ cookies_txt = FALSE
    /\ credentials = None
    /\ did = {}
    /\ UploadUnused

\* line 511: one call of translate_title_for_vid on the cache
Translate ==
    /\ pc = "idle"
    /\ tcalls < MaxCalls
    /\ \E v \in Ids, title \in Titles, outs \in AllOutputs, fallback \in FallbackFiles :
          LET r == translate_title_for_vid(v, title, translations_cache, outs, fallback)
          IN  /\ translations_cache' = r.cache
              /\ tcall' = [vid |-> v, title |-> title, outs |-> outs,
                           fallback |-> fallback, before |-> translations_cache,
                           ret |-> r.ret, calls |-> r.calls, fb_read |-> r.fb_read,
                           raised |-> r.raised]
    /\ tcalls' = tcalls + 1
    /\ pc' = "called"
    /\ UNCHANGED main

\* the caller goes on with the title
Return ==
    /\ pc = "called"
    /\ tcall' = NoCall
    /\ pc' = "idle"
    /\ UNCHANGED <<main, translations_cache, tcalls>>

NextTranslate ==
    \/ Translate
    \/ Return

SpecTranslate == InitTranslate /\ [][NextTranslate]_vars

\* --------------------------------------------- the upload adapter on its own
MaxChunks == 2

MAX_RETRIES == 12

\* What one call of request.next_chunk() can do: report progress only
\* (status, None); end the transfer with a response body; raise HttpError with
\* the status of e.resp (0: no status could be read); raise another exception.
Progress == [kind |-> "progress", status |-> 0, response |-> None]
Final(body) == [kind |-> "final", status |-> 0, response |-> body]
HttpError(code) == [kind |-> "HttpError", status |-> code, response |-> None]
OtherError == [kind |-> "Exception", status |-> 0, response |-> None]

\* response bodies: the empty object, an object without "id", one with "id"
Bodies == {"{}", "no_id", "with_id"}
HttpStatuses == {0, 399, 400, 408, 429, 499, 500}
ChunkResults ==
    {Progress, OtherError} \cup {Final(b) : b \in Bodies}
        \cup {HttpError(c) : c \in HttpStatuses}

\* "if response:": None and the empty object are falsy
Truthy(body) == body \notin {None, "{}"}

\* "id" in response
HasId(body) == body = "with_id"

\* line 396: a client error other than 429 and 408 is not retried
ClientError(code) == code # 0 /\ 400 <= code /\ code < 500 /\ code \notin {429, 408}

\* an error count that starts again after every chunk that went through
RetryAfterChunk_Reset(r) == 0

\* lines 366-381: a chunk that went through leaves retry as it is
RetryAfterChunk(r) == r

\* a retry budget that is one short
Exhausted_Early(r) == r >= MAX_RETRIES

\* lines 398 and 406
Exhausted(r) == r > MAX_RETRIES

\* everything but the adapter's own variables
controller == <<pc, rerun, config, ledger_file, downloaded_ids, discovery, counters,
                download, video_id, thumb_local, thumb_disk, thumb_set, history,
                lifecycle, translation, names>>

InitUpload ==
    /\ pc = "idle"
    /\ rerun = FALSE
    /\ MAX_VIDEOS = 0
    /\ SKIP_LIMIT = 0
    /\ DOWNLOAD_RETRIES = 0
    /\ channel = <<>>
    /\ ledger_file = MissingFile
    /\ downloaded_ids = {}
    /\ entries = <<>>
    /\ candidates = <<>>
    /\ max_checks = 0
    /\ probe_idx = 0
    /\ probes = 0
    /\ successes = 0
    /\ skips = 0
    /\ idx = 0
    /\ attempt = 0
    /\ download_ok = FALSE
    /\ downloaded_file = None
    /\ video_id = None
    /\ thumb_local = None
    /\ thumb_disk = None
    /\ loaded = {}
    /\ popped = <<>>
    /\ fetch_log = <<>>
    /\ n_added = 0
    /\ n_uploaded = 0
    /\ n_failed = 0
    /\ confirmed = {}
    /\ upload_failed = {}
    /\ translations_cache = EmptyCache
    /\ tcall = NoCall
    /\ tcalls = 0
    /\ media_disk = FALSE
    /\ thumb_set = None
    /\ names = <<>>
    /\ cookies_txt = FALSE
    /\ credentials = None
    /\ did = {}
    /\ u_pc = "idle"
    /\ response = None
    /\ retry = 0
    /\ u_ret = None
    /\ chunks = 0
    /\ n_errors = 0
    /\ last_chunk = NoChunk

\* lines 345-362: the request is built, response = None, retry = 0
CallUpload ==
    /\ u_pc = "idle"
    /\ u_pc' = "loop"
    /\ response' = None
    /\ retry' = 0
    /\ UNCHANGED <<controller, u_ret, chunks, n_errors, last_chunk>>

\* lines 363-410: one turn of "while response is None", with its handlers
NextChunk ==
    /\ u_pc = "loop"
    /\ response = None
    /\ \E r \in ChunkResults :
          /\ r.kind = "progress" => chunks < MaxChunks
          /\ last_chunk' = r
          /\ chunks' = IF r.kind = "progress" THEN chunks + 1 ELSE chunks
          /\ n_errors' = IF r.kind \in {"HttpError", "Exception"}
                         THEN n_errors + 1 ELSE n_errors
          /\ response' = r.response
          /\ CASE r.kind = "progress" ->
                    /\ retry' = RetryAfterChunk(retry)
                    /\ UNCHANGED <<u_ret, u_pc>>
               [] r.kind = "final" /\ ~Truthy(r.response) ->
                    \* "if response:" fails and so does the loop condition: the
                    \* function ends without a return statement
                    /\ u_pc' = "returned"
                    /\ u_ret' = None
                    /\ UNCHANGED retry
               [] r.kind = "final" /\ Truthy(r.response) /\ HasId(r.response) ->
                    /\ u_pc' = "returned"
                    /\ u_ret' = "yt"
                    /\ UNCHANGED retry
               [] r.kind = "final" /\ Truthy(r.response) /\ ~HasId(r.response) ->
                    \* the raise of line 387 is caught at line 403; after the
                    \* sleep the loop condition fails and the function ends
                    /\ retry' = retry + 1
                    /\ u_pc' = IF Exhausted(retry') THEN "raised" ELSE "returned"
                    /\ u_ret' = None
               [] r.kind = "HttpError" ->
                    /\ retry' = retry + 1
                    /\ u_pc' = IF ClientError(r.status) \/ Exhausted(retry')
                               THEN "raised" ELSE "loop"
                    /\ UNCHANGED u_ret
               [] r.kind = "Exception" ->
                    /\ retry' = retry + 1
                    /\ u_pc' = IF Exhausted(retry') THEN "raised" ELSE "loop"
                    /\ UNCHANGED u_ret
    /\ UNCHANGED controller

\* lines 585 and 593: the caller has the result or the exception
UploadDone ==
    /\ u_pc \in {"returned", "raised"}
    /\ u_pc' = "idle"
    /\ response' = None
    /\ retry' = 0
    /\ u_ret' = None
    /\ chunks' = 0
    /\ n_errors' = 0
    /\ last_chunk' = NoChunk
    /\ UNCHANGED controller

NextUpload ==
    \/ CallUpload
    \/ NextChunk
    \/ UploadDone

SpecUpload == InitUpload /\ [][NextUpload]_vars

\* The loop is straight-line code of one thread: a call that is inside the
\* loop takes its next turn.
FairSpecUpload == SpecUpload /\ WF_vars(NextChunk)

\* ------------------------------------------------- the local name on its own
MaxTitle == 2

max_length == 140

\* The characters titles are made of: a letter, the blank, one of the reserved
\* characters <>:"/\|?* and a control character that is no whitespace.
Ctl == "ctl"
TitleChars == {"a", Blank, "?", Ctl}

\* the character class of line 69
Removed(c) == c \in {"?", Ctl}

\* re.sub(r"\s+", " ", s): a run of blanks becomes one blank
RECURSIVE collapse(_)
collapse(t) ==
    IF Len(t) < 2 THEN t
    ELSE IF t[1] = Blank /\ t[2] = Blank THEN collapse(Tail(t))
    ELSE <<Head(t)>> \o collapse(Tail(t))

\* lines 68-72 of sanitize_filename_keep_unicode: strip, remove the reserved and
\* control characters, collapse and strip again, cut, blanks to underscores
Clean(s) ==
    LET s1 == strip(s)
        s2 == SelectSeq(s1, LAMBDA c : ~Removed(c))
        s3 == strip(collapse(s2))
        s4 == SubSeq(s3, 1, IF Len(s3) < max_length THEN Len(s3) ELSE max_length)
    IN  [i \in 1..Len(s4) |-> IF s4[i] = Blank THEN "_" ELSE s4[i]]

Video == <<"v", "i", "d", "e", "o">>

\* "video" stands in for an empty argument and for an empty result
sanitize_filename_keep_unicode(s) ==
    LET cleaned == Clean(IF s = <<>> THEN Video ELSE s)
    IN  IF cleaned = <<>> THEN Video ELSE cleaned

\* line 514: sanitize_filename_keep_unicode(final_title or vid)
SafeName(final_title, v) ==
    sanitize_filename_keep_unicode(IF final_title # <<>> THEN final_title ELSE <<v>>)

NameTitles == SeqsUpTo(TitleChars, MaxTitle)

InitName ==
    /\ pc = "idle"
    /\ rerun = FALSE
    /\ MAX_VIDEOS = 0
    /\ SKIP_LIMIT = 0
    /\ DOWNLOAD_RETRIES = 0
    /\ channel = <<>>
    /\ ledger_file = MissingFile
    /\ downloaded_ids = {}
    /\ entries = <<>>
    /\ candidates = <<>>
    /\ max_checks = 0
    /\ probe_idx = 0
    /\ probes = 0
    /\ successes = 0
    /\ skips = 0
    /\ idx = 0
    /\ attempt = 0
    /\ download_ok = FALSE
    /\ downloaded_file = None
    /\ video_id = None
    /\ thumb_local = None
    /\ thumb_disk = None
    /\ loaded = {}
    /\ popped = <<>>
    /\ fetch_log = <<>>
    /\ n_added = 0
    /\ n_uploaded = 0
    /\ n_failed = 0
    /\ confirmed = {}
    /\ upload_failed = {}
    /\ translations_cache = EmptyCache
    /\ tcall = NoCall
    /\ tcalls = 0
    /\ media_disk = FALSE
    /\ thumb_set = None
    /\ names = <<>>
    /\ cookies_txt = FALSE
    /\ credentials = None
    /\ did = {}
    /\ UploadUnused

\* line 514 for one more candidate: an id not named yet, with any display title
NameCandidate ==
    /\ pc = "idle"
    /\ \E v \in Ids, title \in NameTitles :
          /\ \A i \in 1..Len(names) : names[i].vid # v
          /\ names' = Append(names, [vid |-> v, title |-> title,
                                     safe_name |-> SafeName(title, v)])
    /\ UNCHANGED <<pc, rerun, config, ledger_file, downloaded_ids, discovery, counters,
                   download, video_id, thumb_local, thumb_disk, thumb_set, history,
                   lifecycle, translation, upload>>

NextName == NameCandidate

SpecName == InitName /\ [][NextName]_vars

\* ------------------------------------------------------------------- claims
\* the main loop is working on a popped candidate
InIteration == pc \in {"download", "uploaded", "added"}

\* the ledger has been loaded and the process is alive
Running == pc \notin {"start", "load", "aborted"}

\* C1: at every point of a run the successes, the calls of downloaded_ids.add and
\* the ids the run added to the processed set are each at most MAX_VIDEOS.
C1_QuotaCorrect ==
    /\ successes <= MAX_VIDEOS
    /\ n_added <= MAX_VIDEOS
    /\ Running => Cardinality(downloaded_ids \ loaded) <= MAX_VIDEOS

\* the quota, not the end of the list, stopped a run that filled it
C1_Witness ==
    /\ pc = "done"
    /\ MAX_VIDEOS = 2
    /\ successes = 2
    /\ n_added = 2
    /\ idx < Len(candidates)

\* C2: skips never exceeds SKIP_LIMIT, and no candidate is being processed (popped,
\* downloaded, uploaded) in a state where skips has reached SKIP_LIMIT.
C2_SkipBudget ==
    /\ skips <= SKIP_LIMIT
    /\ InIteration => skips < SKIP_LIMIT

\* the skip budget stopped the run with candidates left and the quota unfilled
C2_Witness ==
    /\ pc = "done"
    /\ SKIP_LIMIT = 2
    /\ skips = 2
    /\ upload_failed # {}
    /\ successes < MAX_VIDEOS
    /\ idx < Len(candidates)

\* a result file that exists and is larger than the size threshold
C3_Good(f) == f.found /\ f.size > SizeThreshold

\* C3: the fetcher runs at most DOWNLOAD_RETRIES times for a candidate, no attempt
\* follows one that left a valid file, the download counts as done exactly when the
\* last attempt left one, and the candidate is given up only after exactly
\* DOWNLOAD_RETRIES attempts that all failed.
C3_RetryBound ==
    /\ Len(fetch_log) <= DOWNLOAD_RETRIES
    /\ \A i \in 1..(Len(fetch_log) - 1) : ~C3_Good(fetch_log[i])
    /\ download_ok <=> (fetch_log # <<>> /\ C3_Good(fetch_log[Len(fetch_log)]))
    /\ (pc = "download" /\ ~download_ok /\ ENABLED SkipDownload)
          => /\ Len(fetch_log) = DOWNLOAD_RETRIES
             /\ \A i \in 1..Len(fetch_log) : ~C3_Good(fetch_log[i])

\* a candidate about to be skipped after two attempts, the second of which left a
\* file of exactly the threshold size
C3_Witness ==
    /\ pc = "download"
    /\ DOWNLOAD_RETRIES = 2
    /\ ~download_ok
    /\ fetch_log = <<NoFile, FileOfSize(SizeThreshold)>>

\* C4: after the run, no id whose upload failed in this run (and that was not in
\* the ledger at its start) is in the processed set, in memory or on disk.
C4_NonMutationOnFailure ==
    pc = "done" =>
        \A v \in upload_failed \ loaded :
            v \notin downloaded_ids /\ v \notin load_json_set(ledger_file)

\* C5: a candidate handed to the uploader is not in the processed set.
C5_Idempotent ==
    (pc = "download" /\ download_ok) => vid \notin downloaded_ids

\* C6: candidates are popped in list order; at loop exit the processed set is the
\* loaded set plus the ids whose upload returned a video id, successes counts those
\* candidates and skips counts the popped candidates that failed.
C6_LoopResult ==
    /\ popped = SubSeq(candidates, 1, idx)
    /\ pc = "done" =>
          /\ downloaded_ids = loaded \cup confirmed
          /\ successes = n_uploaded
          /\ skips = n_failed
          /\ n_uploaded + n_failed = Len(popped)

\* A fails, B is uploaded, the next candidate fails: B alone is added
C6_Witness ==
    /\ pc = "done"
    /\ Len(popped) = 3
    /\ popped[2] = "B"
    /\ loaded = {}
    /\ downloaded_ids = {"B"}
    /\ successes = 1
    /\ skips = 2

\* C7 (state part): every id of the in-memory processed set was loaded at run start
\* or had its upload return a video id in this run.
C7_FromLedgerOrConfirmed ==
    Running => downloaded_ids \subseteq loaded \cup confirmed

\* C7: every id of the in-memory processed set was loaded at run start or had its
\* upload return a video id in this run, and no step of a run removes an id.
C7_OnlyAfterUpload ==
    /\ []C7_FromLedgerOrConfirmed
    /\ [][rerun' = rerun => downloaded_ids \subseteq downloaded_ids']_vars

\* a run that loaded an id, added another and skipped a candidate
C7_Witness ==
    /\ pc = "done"
    /\ loaded # {}
    /\ confirmed # {}
    /\ confirmed \cap loaded = {}
    /\ n_failed > 0
    /\ downloaded_ids = loaded \cup confirmed

\* C8: whenever the loop is between two candidates or has ended, the ledger file
\* holds exactly the in-memory processed set; at every point of a run the file
\* holds every loaded id and every id confirmed by a completed iteration.
C8_EagerPersist ==
    /\ pc \in {"loop", "sleep", "done"} => load_json_set(ledger_file) = downloaded_ids
    /\ Running =>
          /\ loaded \subseteq load_json_set(ledger_file)
          /\ load_json_set(ledger_file) \subseteq downloaded_ids
          /\ downloaded_ids \ load_json_set(ledger_file)
                \subseteq (IF pc = "added" THEN {vid} ELSE {})

\* a later candidate is being downloaded while the file already holds the loaded id
\* and the id confirmed before
C8_Witness ==
    /\ pc = "download"
    /\ n_uploaded = 1
    /\ loaded # {}
    /\ confirmed \cap loaded = {}
    /\ ledger_file = save_json_obj_ids(loaded \cup confirmed)

\* the cache held a non-empty title for x
C9_Populated(cache, x) == cache[x].has /\ cache[x].text # <<>>

\* C9: a call with a non-empty raw title for an id whose cache entry is non-empty
\* returns that entry, calls no provider and does not look at the fallback file;
\* and no call changes a non-empty cache entry.
C9_Memoized ==
    pc = "called" =>
        /\ (tcall.title # <<>> /\ C9_Populated(tcall.before, tcall.vid)) =>
              /\ tcall.ret = tcall.before[tcall.vid].text
              /\ tcall.calls = 0
              /\ ~tcall.fb_read
        /\ \A x \in Ids :
              C9_Populated(tcall.before, x) => translations_cache[x] = tcall.before[x]

\* the second call for an id: the first provider would answer, the title cached by
\* the earlier call (from the third provider) is returned instead
C9_Witness ==
    /\ pc = "called"
    /\ tcalls = 2
    /\ tcall.title # <<>>
    /\ tcall.before[tcall.vid] = Entry(<<"libre">>)
    /\ tcall.outs[1] = Text(<<Blank, "googletrans", Blank>>)
    /\ tcall.ret = <<"libre">>
    /\ tcall.calls = 0

\* a provider result that is a text with a character that is no blank
C10_NonBlank(r) == r.kind = "text" /\ \E i \in 1..Len(r.text) : r.text[i] # Blank

\* r is t without its leading and trailing blanks
C10_IsTrimOf(r, t) ==
    /\ r # <<>>
    /\ r[1] # Blank
    /\ r[Len(r)] # Blank
    /\ \E a \in 0..Len(t) :
          /\ a + Len(r) <= Len(t)
          /\ SubSeq(t, a + 1, a + Len(r)) = r
          /\ \A i \in 1..Len(t) : (i <= a \/ i > a + Len(r)) => t[i] = Blank

\* the providers that answer with a non-blank text before any other does
C10_First(outs) ==
    {i \in 1..Len(Strategies) :
        C10_NonBlank(outs[i]) /\ \A j \in 1..(i - 1) : ~C10_NonBlank(outs[j])}

\* C10: for a non-empty raw title with no cached value the result is the trimmed
\* text of the first provider that answers with a non-blank text, and exactly the
\* providers up to that one are called; if none answers, all are called and the
\* result is the trimmed fallback text when the file holds a non-blank one, else the
\* raw title; the result is stored under the id, no other entry changes, and no
\* exception escapes.
C10_FallbackChain ==
    (pc = "called" /\ tcall.title # <<>> /\ ~C9_Populated(tcall.before, tcall.vid)) =>
        /\ \A i \in C10_First(tcall.outs) :
              /\ C10_IsTrimOf(tcall.ret, tcall.outs[i].text)
              /\ tcall.calls = i
        /\ C10_First(tcall.outs) = {} =>
              /\ tcall.calls = Len(Strategies)
              /\ IF tcall.fallback.kind = "text"
                    /\ \E i \in 1..Len(tcall.fallback.content) :
                          tcall.fallback.content[i] # Blank
                 THEN C10_IsTrimOf(tcall.ret, tcall.fallback.content)
                 ELSE tcall.ret = tcall.title
        /\ translations_cache[tcall.vid] = Entry(tcall.ret)
        /\ \A x \in Ids \ {tcall.vid} : translations_cache[x] = tcall.before[x]
        /\ ~tcall.raised

\* three providers fail in the three ways, the fourth answers, the fifth is not asked
C10_Witness ==
    /\ pc = "called"
    /\ ~C9_Populated(tcall.before, tcall.vid)
    /\ tcall.title # <<>>
    /\ tcall.outs[1] = Raises
    /\ tcall.outs[2] = Text(<<>>)
    /\ tcall.outs[3] = Text(<<Blank>>)
    /\ tcall.outs[4] = Text(<<Blank, "mymemory", Blank>>)
    /\ tcall.outs[5] = Text(<<Blank, "unidecode", Blank>>)
    /\ tcall.ret = <<"mymemory">>
    /\ tcall.calls = 4
    /\ translations_cache[tcall.vid] = Entry(<<"mymemory">>)

\* the controller is between two candidates of this run, or past the last one
Between == pc \in {"loop", "sleep", "done"} /\ popped # <<>>

\* C11: whenever the controller has left a candidate (it is at the loop head, in
\* the politeness delay or past the loop), neither a media file nor a thumbnail
\* file is on disk.
C11_ScopedArtifacts == Between => (~media_disk /\ thumb_disk = None)

\* the last next_chunk call raised
StepFailed == last_chunk.kind \in {"HttpError", "Exception"}

C13_IdOrRaise == u_pc = "returned" => u_ret # None

\* the run of the script has ended
RunEnded == pc \in {"done", "exit_empty", "aborted"}

\* C14: with a cookie blob configured, cookies.txt is not on disk once the run
\* has ended, whichever way it ended.
C14_CookieRemoved == (BILIBILI_COOKIES_ENV /\ RunEnded) => ~cookies_txt

\* C15: a run that got past the credential check and has ended has reported
\* its final counts.
C15_AlwaysReports == (pc \in {"done", "exit_empty"}) => "report" \in did

\* C16: when the credentials are missing the run is aborted and has done none
\* of: loading the ledger, listing the channel, probing an item, fetching media,
\* uploading, writing the ledger; the in-memory state of discovery and of the
\* main loop is untouched.
C16_AbortBeforeWork ==
    credentials = "missing" =>
        /\ pc = "aborted"
        /\ did = {}
        /\ downloaded_ids = {} /\ loaded = {}
        /\ entries = <<>> /\ candidates = <<>> /\ probes = 0
        /\ popped = <<>> /\ n_added = 0

C16_Witness ==
    /\ pc = "aborted"
    /\ credentials = "missing"
    /\ rerun
    /\ ledger_file # MissingFile
    /\ load_json_set(ledger_file) # {}

\* no id occurs twice in s
NoDuplicates(s) == \A i, j \in 1..Len(s) : s[i] = s[j] => i = j

\* s is t with some elements left out
RECURSIVE IsSubsequence(_, _)
IsSubsequence(s, t) ==
    IF s = <<>> THEN TRUE
    ELSE IF t = <<>> THEN FALSE
    ELSE IF Head(s) = Head(t) THEN IsSubsequence(Tail(s), Tail(t))
    ELSE IsSubsequence(s, Tail(t))

\* C17: when discovery has returned, the candidates are in the source's order,
\* none of them is in the processed set and none occurs twice.
C17_DiscoveryResult ==
    pc = "found" =>
        /\ IsSubsequence(candidates, channel)
        /\ Range(candidates) \cap downloaded_ids = {}
        /\ NoDuplicates(candidates)

\* C18: the per-item fallback runs only when the flat listing gave no
\* unprocessed entry, probes the positions 1, 2, 3, ... in this order, and makes
\* at most max_checks probes.
C18_BoundedFallback ==
    /\ probes > 0 => FlatCandidates(entries, loaded) = <<>>
    /\ pc = "probe" => probe_idx = probes + 1
    /\ probes <= max_checks

\* C19: the loop head is reached from the processing of a candidate without the
\* politeness delay only when no further candidate is going to be processed.
C19_DelayBetween == [][(pc = "download" /\ pc' = "loop") => ~LoopGuard']_vars

\* C20: the run is never stuck inside a fetch attempt: an attempt that was
\* started has been recorded with its result, so that the retry loop or the
\* skip accounting goes on.
C20_AttemptEnds == pc # "blocked" /\ (pc = "download" => Len(fetch_log) = attempt)

\* the main loop is at an iteration boundary or past its end
AtBoundary == pc \in {"loop", "sleep", "done"}

\* C22 (state part): at every iteration boundary and at loop exit every popped
\* candidate is counted, and inside an iteration all but the current one are.
C22_SumIsPopped ==
    /\ AtBoundary => successes + skips = idx
    /\ (InIteration \/ pc = "blocked") => successes + skips = idx - 1

\* C22: successes + skips equals the number of candidates popped at every
\* iteration boundary and at loop exit, and a step of the run raises at most one
\* of the two counters, by exactly 1, and lowers none.
C22_CountedOnce ==
    /\ []C22_SumIsPopped
    /\ [][rerun' = rerun =>
            \/ successes' = successes /\ skips' = skips
            \/ successes' = successes + 1 /\ skips' = skips
            \/ successes' = successes /\ skips' = skips + 1]_vars

C22_Witness ==
    /\ pc = "done"
    /\ idx = 3
    /\ successes = 1
    /\ skips = 2
    /\ n_failed = 2
    /\ Cardinality(upload_failed) = 1

\* C23: a thumbnail is sent only for a candidate whose upload returned a video
\* id, in that candidate's iteration, and what is sent is the file fetched for
\* this candidate, never a file left by an earlier one.
C23_OwnThumbnail ==
    thumb_set # None =>
        /\ pc = "added"
        /\ video_id # None
        /\ vid \in confirmed
        /\ thumb_local # None
        /\ thumb_set = "current"

C23_Witness ==
    /\ pc = "added"
    /\ idx >= 2
    /\ thumb_disk = "stale"
    /\ thumb_local = None
    /\ thumb_set = None
    /\ video_id # None

\* C24 (state part): the error count is cumulative while the loop runs, stays
\* within MAX_RETRIES there, the call has raised when it reaches
\* MAX_RETRIES + 1 or when the last step failed with a client error, and the
\* number of next_chunk calls made inside the loop is bounded.
C24_ErrorBound ==
    /\ retry <= MAX_RETRIES + 1
    /\ u_pc = "loop" => (retry = n_errors /\ retry <= MAX_RETRIES)
    /\ retry = MAX_RETRIES + 1 => u_pc = "raised"
    /\ (StepFailed /\ ClientError(last_chunk.status)) => u_pc = "raised"
    /\ u_pc = "loop" => chunks + n_errors <= MaxChunks + MAX_RETRIES

\* C24: errors are counted over the whole upload, the 13th makes the call
\* raise, a client error makes it raise at once, and every call that entered
\* the loop ends, by a return or by an exception.
C24_Terminates ==
    /\ []C24_ErrorBound
    /\ (u_pc = "loop") ~> (u_pc \in {"returned", "raised"})

C24_Witness ==
    /\ u_pc = "raised"
    /\ retry = MAX_RETRIES + 1
    /\ last_chunk = OtherError
    /\ chunks = MaxChunks

\* C21: the local name is the sanitized display title; when the title sanitizes
\* to the empty string the local name is the candidate's id, so that two
\* candidates whose titles both sanitize to empty have different local names.
C21_NameFallback ==
    /\ \A i \in 1..Len(names) :
          /\ Clean(names[i].title) # <<>> => names[i].safe_name = Clean(names[i].title)
          /\ Clean(names[i].title) = <<>> => names[i].safe_name = <<names[i].vid>>
    /\ \A i, j \in 1..Len(names) :
          (i # j /\ Clean(names[i].title) = <<>> /\ Clean(names[j].title) = <<>>)
             => names[i].safe_name # names[j].safe_name

=============================================================================
